---- MODULE Spec2Model ----
(***************************************************************************)
(* Pulse-sequence compiler of time-resolved-odmr:                          *)
(*   - SDG1062X.set_waveform / set_waveform_exact   (src/Devices/AWG.py)   *)
(*   - PicoPulse.encodeSequence / sendSequence      (src/Devices/PicoPulse.py) *)
(*   - seq_to_waveforms                             (src/Devices/AWG.py)   *)
(*   - T1.idleSeq / T1seq / measureT1 / iterateT1   (src/Experiments/T1.py) *)
(*   - CW.idleSeq / cwSeq / measureCW / iterateCW   (src/Experiments/CW.py) *)
(*   - setupDevices / unloadDevices / refreshDevices / __del__ of the three *)
(*   - Rabi.idleSeq / rabiSeq / measureRabi / iterateRabi                  *)
(*                                                  (src/Experiments/Rabi.py) *)
(*   - LIQ_SDG1062X.set_sequence                    (src/Devices/AWG.py)   *)
(*   - KuhnePLL.setHz / sendCommand                 (src/Devices/LO.py)    *)
(*   - the timing computation of seq_to_waveforms(seq, lock_in_hz), which  *)
(*     src/Devices/AWG.py:489-561 holds as commented-out code              *)
(*                                                                         *)
(* Data representation.                                                    *)
(*   A numpy float array is a record [num, den, zeros]: the samples are    *)
(*   num[1]/den, ..., num[k]/den followed by `zeros` samples equal to 0.   *)
(*   Element-wise operations act on a zero as on any sample (0/f = 0,      *)
(*   0x7FFF*0 = 0, |0| = 0), so the trailing run is kept as a count.       *)
(*   An integer array is a record [data, zeros] in the same way.           *)
(*   A DataFrame is a record [cols, blocks]; a block [rows, reps] stands   *)
(*   for its rows repeated reps times, and the frame's rows are those of   *)
(*   its blocks in order. A row is [time, vals]: the step lasts            *)
(*   time/TimeDen and vals is a function on cols. A token stream is kept   *)
(*   in blocks in the same way, a token being <<duration, bitmask>>.       *)
(***************************************************************************)
EXTENDS Integers, Sequences, FiniteSets, TLC

VARIABLES
    waveform,     \* the caller's array object handed to the AWG encoder
    awg_fn,       \* last AWG call: "none", "set_waveform", "set_waveform_exact"
    awg_args,     \* its arguments [channel, amp, offset]
    awg_ret,      \* the integer array it returned
    awg_written,  \* the commands it wrote to the device, in order
    awg_exc,      \* the exception it raised, or "none"
    awg_pair,     \* two successive encode calls on the caller's array
    seq,          \* the DataFrame handed to the token encoder
    pico_pins,    \* the caller's channel map (experiment configuration)
    pico_fn,      \* last PicoPulse call: "none", "encodeSequence", "sendSequence"
    pico_args,    \* its arguments [cycle, innerLoop, outerLoop]
    pico_cmd,     \* the command it built
    pico_dev,     \* the commands received by the pulse generator, in order
    pico_exc,     \* the exception it raised, or "none"
    lseq,         \* the DataFrame (length, L, I, Q) handed to seq_to_waveforms
    w_fn,         \* last expansion call: "none", "seq_to_waveforms"
    w_ret,        \* the buffers (Lp, Ln, I, Q) it returned
    w_i,          \* the write index i when the call ended
    w_exc,        \* the exception it raised, or "none"
    w_log,        \* the commands set_sequence wrote to the two generators
    lo_val,       \* the frequency in Hz that setHz is called with, a double
    lo_legacy,    \* KuhnePLL.legacy
    lo_dev,       \* whether KuhnePLL.connect opened the serial port
    lo_replies,   \* what the oscillator does with the commands it is sent
    lo_sent,      \* the commands setHz wrote to the serial port, in order
    lo_ret,       \* what setHz returned or raised, "none" before the call
    x_kind,       \* the experiment object's class: "CW", "T1" or "Rabi"
    x_idle,       \* its attribute self.idle
    x_dev,        \* the program its pulse generator received last
    x_call,       \* the last method call on it: name, arguments, effects
    x_exc,        \* the exception that call raised, or "none"
    x_log,        \* what that call did to the devices, in order
    x_res,        \* which of self.rm, self.lo, self.lock, self.pico are live
    r_ts,         \* the step durations seq["time_us"] handed to the resolver
    r_pair        \* two successive timing computations on these durations

awg_vars == <<waveform, awg_fn, awg_args, awg_ret, awg_written, awg_exc, awg_pair>>
pico_vars == <<seq, pico_pins, pico_fn, pico_args, pico_cmd, pico_dev, pico_exc>>
w_vars == <<lseq, w_fn, w_ret, w_i, w_exc, w_log>>
x_vars == <<x_kind, x_idle, x_dev, x_call, x_exc, x_log, x_res>>
r_vars == <<r_ts, r_pair>>
lo_vars == <<lo_val, lo_legacy, lo_dev, lo_replies, lo_sent, lo_ret>>
vars == <<awg_vars, pico_vars, w_vars, x_vars, r_vars, lo_vars>>

(***************************************************************************)
(* Bounds of the model                                                     *)
(***************************************************************************)
MaxData == 2      \* explicit leading samples of an input array
MaxNum == 2       \* input samples are k/SampleDen with |k| <= MaxNum
SampleDen == 1    \* denominator of the input samples
MaxSteps == 2     \* rows of an enumerated input sequence
TimeDen == 2      \* step durations are multiples of 1/TimeDen

(***************************************************************************)
(* Arithmetic helpers                                                      *)
(***************************************************************************)
Abs(x) == IF x < 0 THEN -x ELSE x

Max2(a, b) == IF a >= b THEN a ELSE b

RECURSIVE Pow2(_)
Pow2(k) == IF k = 0 THEN 1 ELSE 2 * Pow2(k - 1)

\* a & b on non-negative integers
RECURSIVE BitAnd(_, _)
BitAnd(a, b) ==
    IF a = 0 \/ b = 0 THEN 0
    ELSE 2 * BitAnd(a \div 2, b \div 2) + (IF a % 2 = 1 /\ b % 2 = 1 THEN 1 ELSE 0)

\* float -> integer conversion truncates toward zero; value is a/b with b > 0
TruncDiv(a, b) == IF a >= 0 THEN a \div b ELSE -((-a) \div b)

(***************************************************************************)
(* SDG1062X.set_waveform                                                   *)
(***************************************************************************)
PadFloor == 32768
Int16Scale == 32767
Int16Min == -32768
Int16Max == 32767

ArrLen(w) == Len(w.num) + w.zeros

IntLen(a) == Len(a.data) + a.zeros

\* np.max(np.abs(waveform)), as a multiple of 1/w.den
RECURSIVE PeakNum(_)
PeakNum(s) == IF s = <<>> THEN 0 ELSE Max2(Abs(Head(s)), PeakNum(Tail(s)))

\* factor = np.max(np.abs(waveform)); if factor != 0: waveform /= factor
\* (num/den) / (peak/den) = num/peak: the division rescales the array in place
NormalizeNever(w) == w

Normalize(w) ==
    IF PeakNum(w.num) # 0 THEN [w EXCEPT !.den = PeakNum(w.num)] ELSE w

\* int(2**(np.ceil(np.log2(n)))): the least power of two >= n
RECURSIVE Pow2Ceil(_)
Pow2Ceil(n) == IF n <= 1 THEN 1 ELSE 2 * Pow2Ceil((n + 1) \div 2)

\* number of zero samples appended for an array of length n - 2
PadCountNoFloor(n) ==
    IF BitAnd(n, n - 1) # 0 THEN Pow2Ceil(n) - n ELSE 0

PadCountAlways(n) == Max2(Pow2Ceil(n), PadFloor) - n

PadCount(n) ==
    IF BitAnd(n, n - 1) # 0 THEN Max2(Pow2Ceil(n), PadFloor) - n ELSE 0

\* np.append(waveform, np.zeros(rem))
Pad(w) == [w EXCEPT !.zeros = w.zeros + PadCount(ArrLen(w) + 2)]

\* (0x7FFF * waveform).astype('int'): 64-bit integers, truncation toward zero.
\* The product is computed exactly; for the enumerated samples it is either
\* exact in floating point or far from an integer, so the two agree.
Quantize(w) ==
    [data |-> [i \in 1..Len(w.num) |-> TruncDiv(Int16Scale * w.num[i], w.den)],
     zeros |-> w.zeros]

\* the array set_waveform uploads and returns
EncodeWaveform(w) == Quantize(Pad(Normalize(w)))

(***************************************************************************)
(* SDG1062X.set_waveform_exact                                             *)
(***************************************************************************)
\* The conversion of a float outside the int16 range to int16 is undefined
\* in the C cast numpy compiles to: the build either keeps the low 16 bits
\* of the truncated value or saturates.
CastModes == {"wrap", "saturate"}

Wrap16(v) == ((v + 32768) % 65536) - 32768

Clamp16(v) == IF v > Int16Max THEN Int16Max ELSE IF v < Int16Min THEN Int16Min ELSE v

CastInt16(v, mode) ==
    IF v >= Int16Min /\ v <= Int16Max THEN v
    ELSE IF mode = "wrap" THEN Wrap16(v) ELSE Clamp16(v)

\* (0x7FFF * waveform).astype('int16')
QuantizeExact(w, mode) ==
    [data |-> [i \in 1..Len(w.num) |->
                  CastInt16(TruncDiv(Int16Scale * w.num[i], w.den), mode)],
     zeros |-> w.zeros]

\* the three writes of an upload: define waveform, select it, set sample rate
UploadCommands(channel, amp, offset, withLength, samples) ==
    << [cmd |-> "WVDT", channel |-> channel, amp |-> amp, offset |-> offset,
        length |-> IF withLength THEN 2 * IntLen(samples) ELSE 0,
        data |-> samples],
       [cmd |-> "ARWV", channel |-> channel, amp |-> 0, offset |-> 0,
        length |-> 0, data |-> [data |-> <<>>, zeros |-> 0]],
       [cmd |-> "SRATE", channel |-> channel, amp |-> 0, offset |-> 0,
        length |-> 0, data |-> [data |-> <<>>, zeros |-> 0]] >>

NoInts == [data |-> <<>>, zeros |-> 0]

\* the samples an encode call returns; amp and offset go to the header only
SamplesShiftedByOffset(fn, w, amp, offset, mode) ==
    LET r == IF fn = "set_waveform" THEN EncodeWaveform(w) ELSE QuantizeExact(w, mode)
    IN [r EXCEPT !.data = [i \in 1..Len(r.data) |-> Clamp16(r.data[i] + offset)]]

Samples(fn, w, amp, offset, mode) ==
    IF fn = "set_waveform" THEN EncodeWaveform(w) ELSE QuantizeExact(w, mode)

\* one encode call on the array w: what went in, what the caller's array
\* holds afterwards, what came back
EncodeRecord(fn, w, amp, offset, mode) ==
    IF fn = "set_waveform" /\ ArrLen(w) = 0
    THEN [fn |-> fn, amp |-> amp, offset |-> offset, mode |-> mode,
          in |-> w, out |-> w, ret |-> NoInts, exc |-> "ValueError"]
    ELSE [fn |-> fn, amp |-> amp, offset |-> offset, mode |-> mode,
          in |-> w,
          out |-> IF fn = "set_waveform" THEN Normalize(w) ELSE w,
          ret |-> Samples(fn, w, amp, offset, mode), exc |-> "none"]

NoEncode == [fn |-> "none"]

NoPair == [first |-> NoEncode, second |-> NoEncode]

\* set_waveform has no cast to int16; set_waveform_exact has the build's
EncodeKinds ==
    {<<"set_waveform", "none">>} \cup ({"set_waveform_exact"} \X CastModes)

Channels == {1, 2}
Amps == {1, 10}
Offsets == {0, 1}

\* lengths of the trailing zero run of the enumerated input arrays
TrailingZeros == {0, 2, 6, 10, 14, 32764, 32766, 32767, 65534}

RECURSIVE SeqsUpTo(_, _)
SeqsUpTo(S, n) ==
    IF n = 0 THEN {<<>>}
    ELSE LET shorter == SeqsUpTo(S, n - 1)
         IN shorter \cup {Append(s, x) : s \in {t \in shorter : Len(t) = n - 1}, x \in S}

InputArrays ==
    {[num |-> s, den |-> SampleDen, zeros |-> z] :
        s \in SeqsUpTo((-MaxNum)..MaxNum, MaxData), z \in TrailingZeros}

(***************************************************************************)
(* PicoPulse.encodeSequence / sendSequence                                 *)
(***************************************************************************)
MaxTokens == 65536

\* Python round() on p/q, q > 0: to the nearest integer, ties to even
PyRound(p, q) ==
    LET fl == p \div q
        r == p - fl * q
    IN IF 2 * r < q THEN fl
       ELSE IF 2 * r > q THEN fl + 1
       ELSE IF fl % 2 = 0 THEN fl ELSE fl + 1

\* the columns the encoder looks for, in the order of their bits
HwColumns == <<"ch1", "ch2", "ch3", "ch4", "ch5">>

\* m = round(innerLoop); if m < 0: m = 0
InnerCount(innerLoop) ==
    IF PyRound(innerLoop, TimeDen) < 0 THEN 0 ELSE PyRound(innerLoop, TimeDen)

\* Counts beyond the model checker's integers are kept in two words:
\* <<hi, lo>> is hi * 65536 + lo. An outerLoop argument is <<>> for None and
\* <<hi, lo>> for the number hi * 65536 + lo/TimeDen, 0 <= lo < 65536 * TimeDen.
WideNorm(hi, lo) == <<hi + (lo \div 65536), lo % 65536>>

\* 1 << 32 - 1 parses as 1 << (32 - 1) = 2^31
OuterSentinel == <<32768, 0>>

\* outerLoop <= (1 << 32 - 1)
AtMostSentinel(o) ==
    o[1] < OuterSentinel[1] \/ (o[1] = OuterSentinel[1] /\ o[2] <= OuterSentinel[2] * TimeDen)

\* the outer-loop count: round(outerLoop) inside [0, 1 << 32 - 1], else the sentinel
OuterCount(outerLoop) ==
    IF outerLoop # <<>> /\ outerLoop[1] >= 0 /\ AtMostSentinel(outerLoop)
    THEN WideNorm(outerLoop[1], PyRound(outerLoop[2], TimeDen))
    ELSE OuterSentinel

\* t = round(seq.time[i]); t = t if t > 0 else 0
StepDuration(row) ==
    IF PyRound(row.time, TimeDen) > 0 THEN PyRound(row.time, TimeDen) ELSE 0

RECURSIVE MaskFrom(_, _, _)
MaskFrom(cols, row, k) ==
    IF k > Len(HwColumns) THEN 0
    ELSE (IF HwColumns[k] \in cols /\ row.vals[HwColumns[k]] > 0
          THEN Pow2(k - 1) ELSE 0) + MaskFrom(cols, row, k + 1)

\* out: 1, 2, 4, 8, 16 for ch1..ch5 present in the frame and > 0 in the row
StepMask(cols, row) == MaskFrom(cols, row, 1)

\* the loop body's token for one row
StepToken(cols, row) == <<StepDuration(row), StepMask(cols, row)>>

\* for i in range(len(seq)): cmd += f"{t},{out},"
\* one token per row, block by block, the repeat counts carried over
EncodeBlockSkippingEmpty(cols, b) ==
    [rows |-> SelectSeq([j \in 1..Len(b.rows) |-> StepToken(cols, b.rows[j])],
                        LAMBDA tk : tk[1] > 0),
     reps |-> b.reps]

EncodeBlock(cols, b) ==
    [rows |-> [j \in 1..Len(b.rows) |-> StepToken(cols, b.rows[j])],
     reps |-> b.reps]

EncodeTokens(s) == [k \in 1..Len(s.blocks) |-> EncodeBlock(s.cols, s.blocks[k])]

\* the command encodeSequence returns, field by field
EncodeSequence(s, cycle, innerLoop, outerLoop) ==
    [kw |-> IF cycle THEN "CPULSE" ELSE "PULSE",
     m |-> InnerCount(innerLoop),
     n |-> OuterCount(outerLoop),
     toks |-> EncodeTokens(s)]

\* decimal text of a non-negative integer, as an f-string prints it
Digit(d) ==
    CASE d = 0 -> "0" [] d = 1 -> "1" [] d = 2 -> "2" [] d = 3 -> "3"
      [] d = 4 -> "4" [] d = 5 -> "5" [] d = 6 -> "6" [] d = 7 -> "7"
      [] d = 8 -> "8" [] d = 9 -> "9"

RECURSIVE Str(_)
Str(n) == IF n < 10 THEN Digit(n) ELSE Str(n \div 10) \o Digit(n % 10)

\* decimal text of the two-word count <<hi, lo>>, by long division by ten
RECURSIVE StrWide(_)
StrWide(w) ==
    IF w[1] = 0 THEN Str(w[2])
    ELSE LET low == (w[1] % 10) * 65536 + w[2]
         IN StrWide(<<w[1] \div 10, low \div 10>>) \o Digit(low % 10)

\* the concatenated f"{t},{out}," tokens
RECURSIVE TokenText(_)
TokenText(toks) ==
    IF toks = <<>> THEN ""
    ELSE TokenText(SubSeq(toks, 1, Len(toks) - 1))
         \o Str(toks[Len(toks)][1]) \o "," \o Str(toks[Len(toks)][2]) \o ","

\* the rows (or tokens) of a block sequence written out one by one
RECURSIVE Unroll(_)
Unroll(blocks) ==
    IF blocks = <<>> THEN <<>>
    ELSE IF Head(blocks).reps = 0 THEN Unroll(Tail(blocks))
    ELSE Head(blocks).rows
         \o Unroll(<<[Head(blocks) EXCEPT !.reps = @ - 1]>> \o Tail(blocks))

\* len(seq), and the number of tokens of a command
RECURSIVE Steps(_)
Steps(blocks) ==
    IF blocks = <<>> THEN 0
    ELSE Len(Head(blocks).rows) * Head(blocks).reps + Steps(Tail(blocks))

\* the command string: keyword, " m", " n ", tokens
CommandText(c) ==
    c.kw \o " " \o Str(c.m) \o " " \o StrWide(c.n) \o " " \o TokenText(Unroll(c.toks))

NoCommand == [kw |-> "", m |-> 0, n |-> <<0, 0>>, toks |-> <<>>]
NoArgs == [cycle |-> FALSE, innerLoop |-> 0, outerLoop |-> <<>>]
NoSeq == [cols |-> {}, blocks |-> <<>>]
NoPins == <<>>

ColumnSets == {{"laser"}, {"lockin", "laser"}, {"ch1", "ch2"}}

TimeNums == {-TimeDen, 1, TimeDen + 1, 1000 * TimeDen}

RowsOver(c) == [time : TimeNums, vals : [c -> {0, 1}]]

\* the frames written out row by row
ShortSeqs ==
    UNION {{[cols |-> c, blocks |-> <<[rows |-> r, reps |-> 1]>>] :
               r \in SeqsUpTo(RowsOver(c), MaxSteps)} : c \in ColumnSets}

\* burst frames: n times a lock-in-high step, then n times a lock-in-low step,
\* up to and beyond the pulse generator's memory
BurstRow(t, lockin, laser) ==
    [time |-> t,
     vals |-> [c \in {"lockin", "laser"} |-> IF c = "lockin" THEN lockin ELSE laser]]

BurstSeq(n, t) ==
    [cols |-> {"lockin", "laser"},
     blocks |-> << [rows |-> <<BurstRow(t, 1, 1)>>, reps |-> n],
                   [rows |-> <<BurstRow(t, 0, 1), BurstRow(1, 0, 0)>>, reps |-> n] >>]

BurstSeqs ==
    {BurstSeq(n, t) : n \in {2, MaxTokens \div 3, (MaxTokens \div 3) + 1, MaxTokens},
                      t \in {TimeDen + 1, 1000 * TimeDen}}

InputSeqs == ShortSeqs \cup BurstSeqs

\* channel maps a caller configures (pico_pins)
PinMaps ==
    { [c \in {"laser"} |-> 0],
      [c \in {"lockin", "laser"} |-> IF c = "lockin" THEN 0 ELSE 1],
      [c \in {"ch1", "ch2"} |-> IF c = "ch1" THEN 0 ELSE 1] }

InnerLoops == {-TimeDen, TimeDen + 1}
OuterLoops == {<<>>, <<-1, 65535 * TimeDen>>, <<0, TimeDen + 1>>, <<40000, 0>>}

(***************************************************************************)
(* seq_to_waveforms (AWG.py:461-487): every row is written                 *)
(* 2 * round(length) times into four buffers of p = 0x7FFE zeros.          *)
(* A buffer is a record [runs, zeros]: run <<v, n>> stands for n samples   *)
(* equal to v, and the buffer ends with `zeros` untouched samples.         *)
(***************************************************************************)
BufLen == 32766

\* count = 2 * round(row["length"])
ExpandCount(row) == 2 * PyRound(row.length, TimeDen)

\* the loop over the rows from row k on, the write index being i and the
\* rows written so far being `done`; Lp[i] with i = p raises IndexError
RECURSIVE ExpandFrom(_, _, _, _)
ExpandFrom(rows, k, i, done) ==
    IF k > Len(rows) THEN [done |-> done, i |-> i, exc |-> "none"]
    ELSE LET count == ExpandCount(rows[k])
         IN IF count <= 0 THEN ExpandFrom(rows, k + 1, i, done)
            ELSE IF i + count > BufLen
                 THEN [done |-> IF i < BufLen
                                THEN Append(done, <<rows[k], BufLen - i>>)
                                ELSE done,
                       i |-> BufLen, exc |-> "IndexError"]
                 ELSE ExpandFrom(rows, k + 1, i + count,
                                 Append(done, <<rows[k], count>>))

\* one of the four buffers: the column col of the rows written, times sign
Buffer(done, i, col, sign) ==
    [runs |-> [j \in 1..Len(done) |-> <<sign * done[j][1][col], done[j][2]>>],
     zeros |-> BufLen - i]

\* return Lp, Ln, I, Q
SeqToWaveforms(rows) ==
    LET e == ExpandFrom(rows, 1, 0, <<>>)
    IN [Lp |-> Buffer(e.done, e.i, "L", 1),
        Ln |-> Buffer(e.done, e.i, "L", -1),
        I |-> Buffer(e.done, e.i, "I", 1),
        Q |-> Buffer(e.done, e.i, "Q", 1)]

NoBuffers == <<>>

LengthNums ==
    {-TimeDen, 1, TimeDen + 1, 3 * TimeDen, 16383 * TimeDen, 16384 * TimeDen}

LevelRows == [length : LengthNums, L : {0, 1}, I : {0, 1}, Q : {-1, 1}]

LevelSeqs == SeqsUpTo(LevelRows, MaxSteps)

ExpandIdle ==
    /\ lseq = <<>> /\ w_fn = "none" /\ w_ret = NoBuffers /\ w_i = 0
    /\ w_exc = "none" /\ w_log = <<>>

\* a command as one generator receives it: output(channel, state),
\* burst_int / burst_ext (channel), or one of the writes of an upload
Write(dev, cmd, channel, arg) ==
    [dev |-> dev, cmd |-> cmd, channel |-> channel, arg |-> arg]

\* the rest of a method after the writes so far, unless one of them raised
Then(st, nxt) ==
    IF st.exc # "none" THEN st
    ELSE [log |-> st.log \o nxt.log, exc |-> nxt.exc]

\* SDG1062X.set_waveform_exact(channel, waveform, samplerate, amp, name):
\* the binary write of the definition, the selection, and the sample rate
\* formatted with %f, which raises TypeError for anything but a number
SetWaveformExactWrites(dev, channel, samples, samplerate, name) ==
    IF samplerate.scalar
    THEN [log |-> <<Write(dev, "WVDT", channel, name),
                    Write(dev, "ARWV", channel, name),
                    Write(dev, "SRATE", channel, "TARB")>>,
          exc |-> "none"]
    ELSE [log |-> <<Write(dev, "WVDT", channel, name),
                    Write(dev, "ARWV", channel, name)>>,
          exc |-> "TypeError"]

Wrote(log) == [log |-> log, exc |-> "none"]

\* LIQ_SDG1062X.set_sequence(seq): L, I, Q, samplerate are the four arrays
\* Lp, Ln, I, Q that seq_to_waveforms returns, in this order
SetSequenceWrites(rows) ==
    LET e == ExpandFrom(rows, 1, 0, <<>>)
        ret == SeqToWaveforms(rows)
        samplerate == [scalar |-> FALSE, value |-> ret.Q]
        disabled == Wrote(<<Write("awg1", "OUTP", 1, "OFF"),
                            Write("awg2", "OUTP", 1, "OFF"),
                            Write("awg2", "OUTP", 2, "OFF")>>)
    IN IF e.exc # "none" THEN [disabled EXCEPT !.exc = e.exc]
       ELSE
       Then(Then(Then(Then(Then(Then(Then(disabled,
           SetWaveformExactWrites("awg1", 1, ret.Lp, samplerate, "L")),
           Wrote(<<Write("awg1", "BTWV", 1, "INT")>>)),
           SetWaveformExactWrites("awg2", 1, ret.Ln, samplerate, "I")),
           Wrote(<<Write("awg2", "BTWV", 1, "EXT")>>)),
           SetWaveformExactWrites("awg2", 2, ret.I, samplerate, "I")),
           Wrote(<<Write("awg2", "BTWV", 2, "EXT")>>)),
           Wrote(<<Write("awg1", "OUTP", 1, "ON"),
                   Write("awg2", "OUTP", 1, "ON"),
                   Write("awg2", "OUTP", 2, "ON")>>))

(***************************************************************************)
(* Experiments T1 and Rabi. Times are nanoseconds, kept as numerators over *)
(* TimeDen; a lock-in frequency is a whole number of Hz; a laser duty      *)
(* cycle is a number of tenths. The object's pico handle is a PicoPulse    *)
(* and self.pico.sendSequence(seq, cycle = False) hands the encoded frame  *)
(* to the pulse generator.                                                 *)
(***************************************************************************)
MinPad == 20

\* halft = round(1e9/(freq*2))
HalfPeriod(freq) == PyRound(1000000000, 2 * freq)

\* if tpad < 20: raise Exception(...)
TooShortOnlyNegative(tpad) == tpad < 0

TooShort(tpad) == tpad < MinPad * TimeDen

\* what the pulse generator holds after sendSequence(seq, cycle = False)
Sent(frame) == [frame |-> frame, cmd |-> EncodeSequence(frame, FALSE, 0, <<>>)]

NoProgram == [frame |-> NoSeq, cmd |-> NoCommand]

\* T1.idleSeq: the frame of T1.py:71-77
T1IdleFrame(freq) ==
    [cols |-> {"lockin", "laser"},
     blocks |-> <<[rows |-> <<BurstRow(HalfPeriod(freq) * TimeDen, 1, 0),
                             BurstRow(HalfPeriod(freq) * TimeDen, 0, 0)>>,
                   reps |-> 1]>>]

\* tpad = halft - init - readout - tau
T1Pad(tau, init, readout, freq) ==
    HalfPeriod(freq) * TimeDen - init - readout - tau

\* T1.T1seq: the frame of T1.py:116-128
T1Frame(tau, init, readout, freq) ==
    LET tpad == T1Pad(tau, init, readout, freq)
    IN [cols |-> {"lockin", "laser"},
        blocks |-> <<[rows |-> <<BurstRow(init, 1, 1), BurstRow(tau, 1, 0),
                                BurstRow(readout, 1, 1), BurstRow(tpad, 1, 0),
                                BurstRow(init, 0, 1), BurstRow(tau, 0, 0),
                                BurstRow(readout, 0, 0), BurstRow(tpad, 0, 0)>>,
                      reps |-> 1]>>]

RabiColumns == {"lockin", "laser", "I", "Q"}

RabiRow(t, lockin, laser, i, q) ==
    [time |-> t,
     vals |-> [c \in RabiColumns |->
                  CASE c = "lockin" -> lockin [] c = "laser" -> laser
                    [] c = "I" -> i [] c = "Q" -> q]]

\* Rabi.idleSeq: the frame of Rabi.py:78-84
RabiIdleFrame(freq) ==
    [cols |-> RabiColumns,
     blocks |-> <<[rows |-> <<RabiRow(HalfPeriod(freq) * TimeDen, 1, 0, 0, 0),
                             RabiRow(HalfPeriod(freq) * TimeDen, 0, 0, 0, 0)>>,
                   reps |-> 1]>>]

\* laser_on = round(inner_halft*laser_duty_cycle), in whole nanoseconds
LaserOn(inner_halft, duty) == PyRound(inner_halft * duty, TimeDen * 10)

\* laser_off = round(inner_halft - laser_on), in whole nanoseconds
LaserOff(inner_halft, duty) ==
    PyRound(inner_halft - LaserOn(inner_halft, duty) * TimeDen, TimeDen)

\* tpad = laser_off - tau
RabiPad(tau, inner_halft, duty) == LaserOff(inner_halft, duty) * TimeDen - tau

\* the argument checks of rabiSeq, in the order of the code
RabiSeqError(tau, inner_halft, duty, loops) ==
    IF duty <= 0 \/ duty >= 10 THEN "Exception: duty cycle"
    ELSE IF loops <= 0 THEN "Exception: no loop"
    ELSE IF loops * 6 >= MaxTokens THEN "Exception: too many loops"
    ELSE IF TooShort(RabiPad(tau, inner_halft, duty)) THEN "Exception: padding"
    ELSE "none"

\* Rabi.rabiSeq: the frame of Rabi.py:135-152
RabiFrame(tau, inner_halft, duty, loops) ==
    LET tpad == RabiPad(tau, inner_halft, duty)
        laser_on == LaserOn(inner_halft, duty) * TimeDen
    IN [cols |-> RabiColumns,
        blocks |-> <<[rows |-> <<RabiRow(tpad, 1, 0, 0, 0),
                                RabiRow(tau, 1, 0, 1, 1),
                                RabiRow(laser_on, 1, 1, 0, 0)>>,
                      reps |-> loops],
                     [rows |-> <<RabiRow(tpad, 0, 0, 0, 0),
                                RabiRow(tau, 0, 0, 0, 0),
                                RabiRow(laser_on, 0, 1, 0, 0)>>,
                      reps |-> loops]>>]

RECURSIVE MaxOf(_)
MaxOf(ts) ==
    IF Len(ts) = 1 THEN ts[1] ELSE Max2(Head(ts), MaxOf(Tail(ts)))

\* round((1-laser_duty_cycle)*inner_halft) - np.max(taus) < 20
TauTooLarge(taus, inner_halft, duty) ==
    PyRound((10 - duty) * inner_halft, 10 * TimeDen) * TimeDen - MaxOf(taus)
        < MinPad * TimeDen

\* the arguments iterateRabi hands to measureRabi for one tau
MeasureArgs(tau, inner_halft, duty, loops) ==
    [tau |-> tau, inner_halft |-> 100000 * TimeDen, duty |-> 9, loops |-> 100]

NoCall == [fn |-> "none"]

CwRow(t, c1, c2, c3, c4) ==
    [time |-> t,
     vals |-> [c \in {"ch1", "ch2", "ch3", "ch4"} |->
                  CASE c = "ch1" -> c1 [] c = "ch2" -> c2
                    [] c = "ch3" -> c3 [] c = "ch4" -> c4]]

\* CW.cwSeq (cw = 1, CW.py:69-75) and CW.idleSeq (cw = 0, CW.py:56-62)
CwFrame(freq, cw) ==
    [cols |-> {"ch1", "ch2", "ch3", "ch4"},
     blocks |-> <<[rows |-> <<CwRow(HalfPeriod(freq) * TimeDen, 1, cw, cw, cw),
                             CwRow(HalfPeriod(freq) * TimeDen, 0, cw, 0, 0)>>,
                   reps |-> 1]>>]

\* A method is followed through its calls on a record st: the idle flag, the
\* pulse generator's program, the device operations so far, the exception.
\* self.pico.sendSequence(seq, cycle = False) and the flag assignment after it
Send(st, frame, idle, tag) ==
    IF st.exc # "none" THEN st
    ELSE IF ~st.res.pico THEN [st EXCEPT !.exc = "AttributeError"]
    ELSE [st EXCEPT !.dev = Sent(frame), !.idle = idle, !.log = Append(@, tag)]

\* self.lock.multiRead(...) and self.lock.getFreq()
Read(st) == IF st.exc # "none" THEN st ELSE [st EXCEPT !.log = Append(@, "read")]

\* CW.measureCW(freq, lockin_freq = ...), the lock-in reporting `measured` Hz
\* CW.measureCW(freq, lockin_freq = ...), the lock-in reporting `measured` Hz
AfterMeasureCWAlwaysSending(st, lockin_freq, measured) ==
    Send(Read(Send([st EXCEPT !.log = Append(@, "setGHz")],
                   CwFrame(lockin_freq, 1), FALSE, "send cw")),
         CwFrame(measured, 0), TRUE, "send idle")

AfterMeasureCW(st, lockin_freq, measured) ==
    LET s0 == [st EXCEPT !.log = Append(@, "setGHz")]
        s1 == IF st.idle THEN Send(s0, CwFrame(lockin_freq, 1), FALSE, "send cw")
              ELSE s0
        s2 == Read(s1)
    IN IF st.idle THEN Send(s2, CwFrame(measured, 0), TRUE, "send idle") ELSE s2

\* for f in fs: self.measureCW(f, **kwargs)
RECURSIVE AfterMeasureEachCW(_, _, _)
AfterMeasureEachCW(st, fs, measured) ==
    IF fs = <<>> THEN st
    ELSE AfterMeasureEachCW(AfterMeasureCW(st, 500, measured), Tail(fs), measured)

\* CW.iterateCW(fs, lockin_freq = ...)
AfterIterateCW(st, fs, lockin_freq, measured) ==
    Send(AfterMeasureEachCW(Send(st, CwFrame(lockin_freq, 1), FALSE, "send cw"),
                            fs, measured),
         CwFrame(lockin_freq, 0), TRUE, "send idle")

\* T1.T1seq inside a method
AfterT1seq(st, tau, init, readout, freq) ==
    IF st.exc # "none" THEN st
    ELSE IF TooShort(T1Pad(tau, init, readout, freq))
    THEN [st EXCEPT !.exc = "Exception: padding"]
    ELSE Send(st, T1Frame(tau, init, readout, freq), FALSE, "send T1")

\* T1.measureT1(tau, init, readout, lockin_freq = freq)
AfterMeasureT1(st, tau, init, readout, freq) ==
    LET s2 == Read(AfterT1seq(st, tau, init, readout, freq))
    IN IF st.idle THEN Send(s2, T1IdleFrame(freq), TRUE, "send idle") ELSE s2

\* for tau in taus: self.measureT1(tau, init = init, ...)
RECURSIVE AfterMeasureEachT1(_, _, _, _, _)
AfterMeasureEachT1(st, taus, init, readout, freq) ==
    IF taus = <<>> \/ st.exc # "none" THEN st
    ELSE AfterMeasureEachT1(AfterMeasureT1(st, Head(taus), init, readout, freq),
                            Tail(taus), init, readout, freq)

\* round(1e9/(lockin_freq*2)) - init - readout - np.max(taus) < 20
T1TauTooLargeForFirst(taus, init, readout, freq) ==
    T1Pad(Head(taus), init, readout, freq) < MinPad * TimeDen

T1TauTooLarge(taus, init, readout, freq) ==
    T1Pad(MaxOf(taus), init, readout, freq) < MinPad * TimeDen

\* T1.iterateT1(taus, init, readout, lockin_freq = freq)
AfterIterateT1(st, taus, init, readout, freq) ==
    IF taus = <<>> THEN [st EXCEPT !.exc = "ValueError"]
    ELSE IF T1TauTooLarge(taus, init, readout, freq)
    THEN [st EXCEPT !.exc = "Exception: tau too large"]
    ELSE Send(AfterMeasureEachT1(st, taus, init, readout, freq),
              T1IdleFrame(freq), TRUE, "send idle")

NoHandles == [rm |-> FALSE, lo |-> FALSE, lock |-> FALSE, pico |-> FALSE]

\* setupDevices, which creates rm, lo (CW and Rabi), lock and pico in this
\* order and raises at the first constructor that fails: `made` of the
\* four steps succeed, and a handle that was not reached keeps its value.
\* T1 and Rabi pass their pin map to PicoPulse, whose constructor under
\* src/Devices takes none; made = 4 stands for the pulse generator class
\* these two experiments were written against.
AfterSetup(res, kind, made) ==
    [rm |-> TRUE,
     lo |-> IF kind # "T1" THEN TRUE ELSE res.lo,
     lock |-> IF made >= 3 THEN TRUE ELSE res.lock,
     pico |-> IF made >= 4 THEN TRUE ELSE res.pico]

\* self.lo = None; self.lock = None; self.pico = None; self.rm.close();
\* self.rm = None
Release(st, kind) ==
    IF st.exc # "none" THEN st
    ELSE LET drops == (IF kind # "T1" THEN <<"drop lo">> ELSE <<>>)
                         \o <<"drop lock", "drop pico">>
             dropped == [st.res EXCEPT !.lo = FALSE, !.lock = FALSE,
                                       !.pico = FALSE]
         IN IF st.res.rm
            THEN [st EXCEPT !.log = @ \o drops \o <<"rm.close">>,
                            !.res = NoHandles]
            ELSE [st EXCEPT !.log = @ \o drops, !.res = dropped,
                            !.exc = "AttributeError"]

\* unloadDevices as CW has it, without the idle sequence
AfterUnloadWithoutIdle(st, kind) == Release(st, kind)

\* unloadDevices: T1 and Rabi send the idle sequence first
AfterUnload(st, kind) ==
    IF kind = "CW" THEN Release(st, kind)
    ELSE Release(Send(st, IF kind = "T1" THEN T1IdleFrame(500)
                          ELSE RabiIdleFrame(500), TRUE, "send idle"), kind)

Freqs == {64, 256, 500}
Taus == {1, 20 * TimeDen, 9990 * TimeDen, 939990 * TimeDen, 2000000 * TimeDen}
Inits == {50000 * TimeDen, 50000 * TimeDen + 1}
Readouts == {10000 * TimeDen}
InnerHalfts == {100000 * TimeDen, 100000 * TimeDen + 1, 100002 * TimeDen}
Duties == {5, 9, 10}
LoopCounts == {0, 2, 100, 10923}
TauLists ==
    {<<>>, <<20 * TimeDen>>, <<1, 9990 * TimeDen>>, <<40000 * TimeDen>>}

ExpIdle ==
    /\ x_kind = "none" /\ x_idle = FALSE /\ x_dev = NoProgram
    /\ x_call = NoCall /\ x_exc = "none" /\ x_log = <<>>
    /\ x_res = [rm |-> FALSE, lo |-> FALSE, lock |-> FALSE, pico |-> FALSE]

(***************************************************************************)
(* Timing of seq_to_waveforms(seq, lock_in_hz), AWG.py:495-522.            *)
(* Times are whole multiples of 0.1 us. The enumerated lock-in frequencies *)
(* divide 9 800 000, so 0.98/lock_in_hz is a whole number of such units.   *)
(***************************************************************************)
\* p/2 with p = 0x7FFE
HalfPoints == 16383

\* (p/2)/30e6 seconds
MaxRateTime == 5461

\* 0.98*1/lock_in_hz seconds
MarginGrowingWithRate(lock_in_hz) == 98 * lock_in_hz

Margin(lock_in_hz) == 9800000 \div lock_in_hz

\* boundaries[-1] of boundaries = np.cumsum(ts)
RECURSIVE Total(_)
Total(ts) == IF ts = <<>> THEN 0 ELSE Head(ts) + Total(Tail(ts))

\* tmin, t, samplerate = (p/2)/t and timeres = t/(p/2), the last two as
\* <<numerator, denominator>>; 0.98*1/0 raises ZeroDivisionError and
\* boundaries[-1] of no step raises IndexError
ResolveTiming(ts, lock_in_hz) ==
    IF lock_in_hz = 0
    THEN [hz |-> lock_in_hz, exc |-> "ZeroDivisionError", t |-> 0,
          samplerate |-> <<0, 1>>, timeres |-> <<0, 1>>]
    ELSE IF ts = <<>>
    THEN [hz |-> lock_in_hz, exc |-> "IndexError", t |-> 0,
          samplerate |-> <<0, 1>>, timeres |-> <<0, 1>>]
    ELSE LET tmin == Max2(MaxRateTime, Margin(lock_in_hz))
             t == Max2(Total(ts), tmin)
         IN [hz |-> lock_in_hz, exc |-> "none", t |-> t,
             samplerate |-> <<HalfPoints, t>>, timeres |-> <<t, HalfPoints>>]

NoTiming == [hz |-> 0, exc |-> "not called"]

TimeSteps == {1, 3000, 50000}
LockInHz == {-1, 0, 1, 64, 500, 2000}

ResolverIdle ==
    r_ts = <<>> /\ r_pair = [first |-> NoTiming, second |-> NoTiming]

(***************************************************************************)
(* KuhnePLL.setHz. The frequency is an IEEE double m * 2^e; m is kept as    *)
(* its base-2^15 digits, least significant first, so that the products      *)
(* val*1e-3, val*1e-6 and val*1e-9 are rounded as the processor rounds      *)
(* them.                                                                    *)
(***************************************************************************)
RECURSIVE MulSmall(_, _, _)
MulSmall(a, d, carry) ==
    IF a = <<>> THEN (IF carry = 0 THEN <<>> ELSE <<carry>>)
    ELSE <<(Head(a) * d + carry) % 32768>>
         \o MulSmall(Tail(a), d, (Head(a) * d + carry) \div 32768)

RECURSIVE Add(_, _, _)
Add(a, b, carry) ==
    IF a = <<>> /\ b = <<>> THEN (IF carry = 0 THEN <<>> ELSE <<carry>>)
    ELSE LET x == IF a = <<>> THEN 0 ELSE Head(a)
             y == IF b = <<>> THEN 0 ELSE Head(b)
         IN <<(x + y + carry) % 32768>>
            \o Add(IF a = <<>> THEN <<>> ELSE Tail(a),
                   IF b = <<>> THEN <<>> ELSE Tail(b),
                   (x + y + carry) \div 32768)

RECURSIVE Mul(_, _)
Mul(a, b) ==
    IF b = <<>> THEN <<>>
    ELSE Add(MulSmall(a, Head(b), 0), <<0>> \o Mul(a, Tail(b)), 0)

RECURSIVE Bits(_)
Bits(n) == IF n = 0 THEN 0 ELSE 1 + Bits(n \div 2)

RECURSIVE BitLen(_)
BitLen(a) ==
    IF a = <<>> THEN 0
    ELSE IF BitLen(Tail(a)) > 0 THEN BitLen(Tail(a)) + 15 ELSE Bits(Head(a))

\* floor(a / 2^s)
RECURSIVE ShiftRight(_, _)
ShiftRight(a, s) ==
    IF a = <<>> THEN <<>>
    ELSE IF s >= 15 THEN ShiftRight(Tail(a), s - 15)
    ELSE [i \in 1..Len(a) |->
             (a[i] \div Pow2(s))
             + (IF i < Len(a) THEN (a[i + 1] % Pow2(s)) * Pow2(15 - s) ELSE 0)]

\* a mod 2^s
LowBits(a, s) ==
    [i \in 1..Len(a) |->
        IF 15 * i <= s THEN a[i]
        ELSE IF 15 * (i - 1) >= s THEN 0
        ELSE a[i] % Pow2(s - 15 * (i - 1))]

NonZero(a) == \E i \in 1..Len(a) : a[i] # 0

\* quotient and remainder of a by the small number d
RECURSIVE DivSmall(_, _)
DivSmall(a, d) ==
    IF a = <<>> THEN [q |-> <<>>, r |-> 0]
    ELSE LET hi == DivSmall(Tail(a), d)
         IN [q |-> <<(hi.r * 32768 + Head(a)) \div d>> \o hi.q,
             r |-> (hi.r * 32768 + Head(a)) % d]

\* the double nearest to the product of two doubles, ties to even
FMul(x, y) ==
    LET p == Mul(x.m, y.m)
        s == BitLen(p) - 53
        q == ShiftRight(p, s)
        half == LowBits(ShiftRight(p, s - 1), 1)
        up == /\ NonZero(half)
              /\ (NonZero(LowBits(p, s - 1)) \/ NonZero(LowBits(q, 1)))
    IN IF s <= 0 THEN [m |-> p, e |-> x.e + y.e]
       ELSE [m |-> IF up THEN Add(q, <<1>>, 0) ELSE q, e |-> x.e + y.e + s]

\* np.floor of a double below 2^52
Floor(x) == ShiftRight(x.m, -x.e)

\* the literals 1e-3, 1e-6, 1e-9 of LO.py:69-71
Milli == [m |-> <<10748, 9699, 2359, 131>>, e |-> -62]
Micro == [m |-> <<28045, 16747, 7134, 134>>, e |-> -72]
Nano == [m |-> <<22165, 20557, 14383, 137>>, e |-> -82]

\* round(np.floor(val * scale) % 1000)
Group(val, scale) == DivSmall(Floor(FMul(val, scale)), 1000).r

\* ghz, mhz, khz, hz of setHz; hz is taken from np.floor(val) itself
Groups(val) ==
    <<Group(val, Nano), Group(val, Micro), Group(val, Milli),
      DivSmall(Floor(val), 1000).r>>

\* str(n).zfill(3) for 0 <= n <= 999
ZFill3(n) ==
    (IF n < 100 THEN "0" ELSE "") \o (IF n < 10 THEN "0" ELSE "") \o Str(n)

Prefixes == <<"G", "M", "k", "H">>

\* f"{freq}{prefix}F1" if self.legacy, else f"{prefix}FR{freq}\r\n"
LoCommand(n, prefix, legacy) ==
    IF legacy THEN ZFill3(n) \o prefix \o "F1"
    ELSE prefix \o "FR" \o ZFill3(n) \o "\r\n"

\* the loop of setHz from the k-th command on: sendCommand writes the
\* command; a SerialException gives nchar = -1, anything but the reply "A"
\* ends the loop with False
RECURSIVE SendFrom(_, _, _, _)
SendFrom(k, groups, legacy, replies) ==
    IF k > 4 THEN [sent |-> <<>>, ret |-> "True"]
    ELSE LET cmd == LoCommand(groups[k], Prefixes[k], legacy)
             rest == SendFrom(k + 1, groups, legacy, replies)
         IN IF replies[k] = "SerialException"
            THEN [sent |-> <<>>, ret |-> "False"]
            ELSE IF replies[k] # "A" THEN [sent |-> <<cmd>>, ret |-> "False"]
            ELSE [sent |-> <<cmd>> \o rest.sent, ret |-> rest.ret]

\* the doubles setHz is called with
Doubles ==
    { [m |-> <<>>, e |-> 0],                                \* 0.0
      [m |-> <<0, 0, 19456, 187>>, e |-> -42],              \* 1500.75
      [m |-> <<32767, 32767, 32767, 249>>, e |-> -43],      \* 999.9999999999999
      [m |-> <<32767, 32767, 17463, 252>>, e |-> -28],      \* 0.0331e9
      [m |-> <<0, 0, 13716, 238>>, e |-> -23],              \* 1e9
      [m |-> <<0, 23808, 2141, 171>>, e |-> -21],           \* 2870000500.0
      [m |-> <<0, 13352, 31332, 229>>, e |-> -16],          \* 123456789012.0
      [m |-> <<32767, 4503, 7, 255>>, e |-> -15],           \* 273804398999.99997
      [m |-> <<24576, 17407, 27218, 232>>, e |-> -13] }     \* 999999999999.0

Replies == {"A", "E", "", "SerialException"}

LoIdle ==
    /\ lo_val = [m |-> <<>>, e |-> 0] /\ lo_legacy = FALSE /\ lo_dev = FALSE
    /\ lo_replies = <<>> /\ lo_sent = <<>> /\ lo_ret = "none"

(***************************************************************************)
(* Waveform encoder: state machine                                         *)
(***************************************************************************)
PicoIdle ==
    /\ seq = NoSeq /\ pico_pins = NoPins /\ pico_fn = "none"
    /\ pico_args = NoArgs /\ pico_cmd = NoCommand /\ pico_dev = <<>>
    /\ pico_exc = "none"

AwgIdle ==
    /\ waveform = [num |-> <<>>, den |-> 1, zeros |-> 0] /\ awg_fn = "none"
    /\ awg_args = [channel |-> 0, amp |-> 0, offset |-> 0]
    /\ awg_ret = NoInts /\ awg_written = <<>> /\ awg_exc = "none"
    /\ awg_pair = NoPair

InitAWG ==
    /\ waveform \in InputArrays
    /\ awg_fn = "none"
    /\ awg_args = [channel |-> 0, amp |-> 0, offset |-> 0]
    /\ awg_ret = NoInts
    /\ awg_written = <<>>
    /\ awg_exc = "none"
    /\ awg_pair = NoPair
    /\ PicoIdle
    /\ ExpandIdle
    /\ ExpIdle
    /\ ResolverIdle /\ LoIdle

\* np.max of an empty array raises before anything is written
SetWaveformEmpty(channel, amp, offset) ==
    /\ ArrLen(waveform) = 0
    /\ awg_fn' = "set_waveform"
    /\ awg_args' = [channel |-> channel, amp |-> amp, offset |-> offset]
    /\ awg_exc' = "ValueError"
    /\ awg_ret' = NoInts
    /\ awg_written' = <<>>
    /\ UNCHANGED <<waveform, awg_pair, pico_vars, w_vars, x_vars, r_vars, lo_vars>>

SetWaveform(channel, amp, offset) ==
    /\ ArrLen(waveform) > 0
    /\ awg_fn' = "set_waveform"
    /\ awg_args' = [channel |-> channel, amp |-> amp, offset |-> offset]
    /\ waveform' = Normalize(waveform)
    /\ awg_ret' = EncodeWaveform(waveform)
    /\ awg_written' = UploadCommands(channel, amp, offset, TRUE, EncodeWaveform(waveform))
    /\ awg_exc' = "none"
    /\ UNCHANGED <<awg_pair, pico_vars, w_vars, x_vars, r_vars, lo_vars>>

SetWaveformExact(channel, amp, offset, mode) ==
    /\ awg_fn' = "set_waveform_exact"
    /\ awg_args' = [channel |-> channel, amp |-> amp, offset |-> offset]
    /\ awg_ret' = QuantizeExact(waveform, mode)
    /\ awg_written' = UploadCommands(channel, amp, offset, FALSE, QuantizeExact(waveform, mode))
    /\ awg_exc' = "none"
    /\ UNCHANGED <<waveform, awg_pair, pico_vars, w_vars, x_vars, r_vars, lo_vars>>

NextAWG ==
    \E channel \in Channels, amp \in Amps, offset \in Offsets :
        \/ SetWaveformEmpty(channel, amp, offset)
        \/ SetWaveform(channel, amp, offset)
        \/ \E mode \in CastModes : SetWaveformExact(channel, amp, offset, mode)

SpecAWG == InitAWG /\ [][NextAWG]_vars

\* two encode calls in a row on the same array object
FirstEncode(fn, amp, offset, mode) ==
    /\ awg_pair.first.fn = "none"
    /\ awg_pair' = [awg_pair EXCEPT !.first = EncodeRecord(fn, waveform, amp, offset, mode)]
    /\ waveform' = EncodeRecord(fn, waveform, amp, offset, mode).out
    /\ UNCHANGED <<awg_fn, awg_args, awg_ret, awg_written, awg_exc,
                   pico_vars, w_vars, x_vars, r_vars, lo_vars>>

SecondEncode(fn, amp, offset, mode) ==
    /\ awg_pair.first.fn # "none"
    /\ awg_pair.second.fn = "none"
    /\ awg_pair' = [awg_pair EXCEPT !.second = EncodeRecord(fn, waveform, amp, offset, mode)]
    /\ waveform' = EncodeRecord(fn, waveform, amp, offset, mode).out
    /\ UNCHANGED <<awg_fn, awg_args, awg_ret, awg_written, awg_exc,
                   pico_vars, w_vars, x_vars, r_vars, lo_vars>>

NextPair ==
    \E kind \in EncodeKinds, amp \in Amps, offset \in Offsets :
        \/ FirstEncode(kind[1], amp, offset, kind[2])
        \/ SecondEncode(kind[1], amp, offset, kind[2])

SpecPair == InitAWG /\ [][NextPair]_vars

(***************************************************************************)
(* Token encoder: state machine                                            *)
(***************************************************************************)
PicoStart ==
    /\ pico_fn = "none"
    /\ pico_args = NoArgs
    /\ pico_cmd = NoCommand
    /\ pico_dev = <<>>
    /\ pico_exc = "none"
    /\ AwgIdle
    /\ ExpandIdle
    /\ ExpIdle
    /\ ResolverIdle /\ LoIdle

InitPico == seq \in InputSeqs /\ pico_pins \in PinMaps /\ PicoStart

\* one call per run of the harness: the encoder keeps no state between calls
EncodeSequenceCall(cycle, innerLoop, outerLoop) ==
    /\ pico_fn = "none"
    /\ pico_fn' = "encodeSequence"
    /\ pico_args' = [cycle |-> cycle, innerLoop |-> innerLoop, outerLoop |-> outerLoop]
    /\ pico_cmd' = EncodeSequence(seq, cycle, innerLoop, outerLoop)
    /\ pico_exc' = "none"
    /\ UNCHANGED <<seq, pico_pins, pico_dev, awg_vars, w_vars, x_vars, r_vars, lo_vars>>

\* cmd = self.encodeSequence(seq, **kwargs); res = self.device.query(cmd)
SendSequence(cycle, innerLoop, outerLoop) ==
    /\ pico_fn = "none"
    /\ pico_fn' = "sendSequence"
    /\ pico_args' = [cycle |-> cycle, innerLoop |-> innerLoop, outerLoop |-> outerLoop]
    /\ pico_cmd' = EncodeSequence(seq, cycle, innerLoop, outerLoop)
    /\ pico_dev' = Append(pico_dev, pico_cmd')
    /\ pico_exc' = "none"
    /\ UNCHANGED <<seq, pico_pins, awg_vars, w_vars, x_vars, r_vars, lo_vars>>

NextPico ==
    \E cycle \in BOOLEAN, innerLoop \in InnerLoops, outerLoop \in OuterLoops :
        \/ EncodeSequenceCall(cycle, innerLoop, outerLoop)
        \/ SendSequence(cycle, innerLoop, outerLoop)

SpecPico == InitPico /\ [][NextPico]_vars

(***************************************************************************)
(* seq_to_waveforms: state machine                                         *)
(***************************************************************************)
InitExpand == lseq \in LevelSeqs /\ w_fn = "none" /\ w_ret = NoBuffers
              /\ w_i = 0 /\ w_exc = "none" /\ w_log = <<>> /\ AwgIdle /\ PicoIdle /\ ExpIdle
              /\ ResolverIdle /\ LoIdle

\* the call returns the four buffers
SeqToWaveformsCall ==
    /\ w_fn = "none"
    /\ ExpandFrom(lseq, 1, 0, <<>>).exc = "none"
    /\ w_fn' = "seq_to_waveforms"
    /\ w_ret' = SeqToWaveforms(lseq)
    /\ w_i' = ExpandFrom(lseq, 1, 0, <<>>).i
    /\ w_exc' = "none"
    /\ UNCHANGED <<lseq, w_log, awg_vars, pico_vars, x_vars, r_vars, lo_vars>>

\* the call ends in the IndexError of the write at index p; the buffers are
\* locals of the call and are lost with it
SeqToWaveformsOverflow ==
    /\ w_fn = "none"
    /\ ExpandFrom(lseq, 1, 0, <<>>).exc # "none"
    /\ w_fn' = "seq_to_waveforms"
    /\ w_ret' = NoBuffers
    /\ w_i' = ExpandFrom(lseq, 1, 0, <<>>).i
    /\ w_exc' = ExpandFrom(lseq, 1, 0, <<>>).exc
    /\ UNCHANGED <<lseq, w_log, awg_vars, pico_vars, x_vars, r_vars, lo_vars>>

\* LIQ_SDG1062X.set_sequence(lseq); nothing is returned when it raises
SetSequence ==
    /\ w_fn = "none"
    /\ w_fn' = "set_sequence"
    /\ w_log' = SetSequenceWrites(lseq).log
    /\ w_exc' = SetSequenceWrites(lseq).exc
    /\ w_i' = ExpandFrom(lseq, 1, 0, <<>>).i
    /\ w_ret' = NoBuffers
    /\ UNCHANGED <<lseq, awg_vars, pico_vars, x_vars, r_vars, lo_vars>>

NextExpand == SeqToWaveformsCall \/ SeqToWaveformsOverflow \/ SetSequence

SpecExpand == InitExpand /\ [][NextExpand]_vars

(***************************************************************************)
(* Experiments: state machine. The object is as its constructor leaves it: *)
(* __init__ ends with self.idleSeq().                                      *)
(***************************************************************************)
IdleFrame(freq) ==
    IF x_kind = "T1" THEN T1IdleFrame(freq)
    ELSE IF x_kind = "Rabi" THEN RabiIdleFrame(freq) ELSE CwFrame(freq, 0)

InitExp ==
    /\ x_kind \in {"CW", "T1", "Rabi"}
    /\ x_idle = TRUE
    /\ x_dev = Sent(IdleFrame(500))
    /\ x_call = NoCall
    /\ x_exc = "none"
    /\ x_log = <<>>
    /\ x_res = AfterSetup(NoHandles, x_kind, 4)
    /\ AwgIdle /\ PicoIdle /\ ExpandIdle /\ ResolverIdle /\ LoIdle

Call(fn, args, sends, inner) ==
    [fn |-> fn, args |-> args, sends |-> sends, was_idle |-> x_idle,
     inner |-> inner]

\* the object before a call
Start ==
    [idle |-> x_idle, dev |-> x_dev, log |-> <<>>, exc |-> "none",
     res |-> x_res]

\* the object after a call that left it as st
Apply(fn, args, st) ==
    /\ x_idle' = st.idle
    /\ x_dev' = st.dev
    /\ x_log' = st.log
    /\ x_exc' = st.exc
    /\ x_call' = Call(fn, args,
                      Len(SelectSeq(st.log, LAMBDA e : e \in {"send idle", "send cw", "send T1"})),
                      <<>>)
    /\ x_res' = st.res
    /\ UNCHANGED <<x_kind, awg_vars, pico_vars, w_vars, r_vars, lo_vars>>

IdleSeqWithoutFlag(freq) ==
    /\ x_dev' = Sent(IdleFrame(freq))
    /\ x_call' = Call("idleSeq", [freq |-> freq], 1, <<>>)
    /\ x_exc' = "none"
    /\ x_log' = <<"send idle">>
    /\ UNCHANGED <<x_idle, x_kind, x_res, awg_vars, pico_vars, w_vars, r_vars, lo_vars>>

IdleSeq(freq) ==
    /\ x_dev' = Sent(IdleFrame(freq))
    /\ x_idle' = TRUE
    /\ x_call' = Call("idleSeq", [freq |-> freq], 1, <<>>)
    /\ x_exc' = "none"
    /\ x_log' = <<"send idle">>
    /\ UNCHANGED <<x_kind, x_res, awg_vars, pico_vars, w_vars, r_vars, lo_vars>>

cwSeq(freq) ==
    /\ x_kind = "CW"
    /\ Apply("cwSeq", [freq |-> freq],
             Send(Start, CwFrame(freq, 1), FALSE, "send cw"))

measureCW(lockin_freq, measured) ==
    /\ x_kind = "CW"
    /\ Apply("measureCW", [lockin_freq |-> lockin_freq, measured |-> measured],
             AfterMeasureCW(Start, lockin_freq, measured))

iterateCW(fs, lockin_freq, measured) ==
    /\ x_kind = "CW"
    /\ Apply("iterateCW", [fs |-> fs, lockin_freq |-> lockin_freq],
             AfterIterateCW(Start, fs, lockin_freq, measured))

T1seq(tau, init, readout, freq) ==
    /\ x_kind = "T1"
    /\ IF TooShort(T1Pad(tau, init, readout, freq))
       THEN /\ x_exc' = "Exception: padding"
            /\ x_call' = Call("T1seq", [tau |-> tau, init |-> init,
                                        readout |-> readout, freq |-> freq],
                              0, <<>>)
            /\ x_log' = <<>>
            /\ UNCHANGED <<x_dev, x_idle>>
       ELSE /\ x_dev' = Sent(T1Frame(tau, init, readout, freq))
            /\ x_idle' = FALSE
            /\ x_call' = Call("T1seq", [tau |-> tau, init |-> init,
                                        readout |-> readout, freq |-> freq],
                              1, <<>>)
            /\ x_exc' = "none"
            /\ x_log' = <<"send T1">>
    /\ UNCHANGED <<x_kind, x_res, awg_vars, pico_vars, w_vars, r_vars, lo_vars>>

measureT1(tau, init, readout, freq) ==
    /\ x_kind = "T1"
    /\ Apply("measureT1", [tau |-> tau, init |-> init, readout |-> readout,
                           freq |-> freq],
             AfterMeasureT1(Start, tau, init, readout, freq))

iterateT1(taus, init, readout, freq) ==
    /\ x_kind = "T1"
    /\ Apply("iterateT1", [taus |-> taus, init |-> init, readout |-> readout,
                           freq |-> freq],
             AfterIterateT1(Start, taus, init, readout, freq))

rabiSeq(tau, inner_halft, duty, loops) ==
    /\ x_kind = "Rabi"
    /\ x_exc' = RabiSeqError(tau, inner_halft, duty, loops)
    /\ IF RabiSeqError(tau, inner_halft, duty, loops) # "none"
       THEN /\ x_call' = Call("rabiSeq", [tau |-> tau, inner_halft |-> inner_halft,
                                          duty |-> duty, loops |-> loops],
                              0, <<>>)
            /\ x_log' = <<>>
            /\ UNCHANGED <<x_dev, x_idle>>
       ELSE /\ x_dev' = Sent(RabiFrame(tau, inner_halft, duty, loops))
            /\ x_idle' = FALSE
            /\ x_call' = Call("rabiSeq", [tau |-> tau, inner_halft |-> inner_halft,
                                          duty |-> duty, loops |-> loops],
                              1, <<>>)
            /\ x_log' = <<"send rabi">>
    /\ UNCHANGED <<x_kind, x_res, awg_vars, pico_vars, w_vars, r_vars, lo_vars>>

\* returnToIdle = self.idle, then self.RabiSeq(...): the class has no such
\* attribute (the method is rabiSeq), so the call ends in AttributeError
\* before anything is sent or read
measureRabi(tau, inner_halft, duty, loops) ==
    /\ x_kind = "Rabi"
    /\ Apply("measureRabi", [tau |-> tau, inner_halft |-> inner_halft,
                             duty |-> duty, loops |-> loops],
             [Start EXCEPT !.exc = "AttributeError"])

\* np.max of no tau raises; then the up-front check; then the loop, whose
\* first measureRabi call ends at self.RabiSeq(...): the class has no such
\* attribute (the method is rabiSeq), so nothing is sent and the
\* AttributeError leaves iterateRabi
iterateRabi(taus, inner_halft, duty, loops) ==
    /\ x_kind = "Rabi"
    /\ x_exc' = IF taus = <<>> THEN "ValueError"
                ELSE IF TauTooLarge(taus, inner_halft, duty)
                THEN "Exception: tau too large"
                ELSE "AttributeError"
    /\ x_call' = Call("iterateRabi",
                      [taus |-> taus, inner_halft |-> inner_halft,
                       duty |-> duty, loops |-> loops],
                      0,
                      IF taus # <<>> /\ ~TauTooLarge(taus, inner_halft, duty)
                      THEN <<MeasureArgs(taus[1], inner_halft, duty, loops)>>
                      ELSE <<>>)
    /\ x_log' = <<>>
    /\ UNCHANGED <<x_kind, x_dev, x_idle, x_res, awg_vars, pico_vars, w_vars, r_vars, lo_vars>>

NextExp ==
    \/ \E freq \in Freqs : IdleSeq(freq)
    \/ \E tau \in Taus, init \in Inits, readout \in Readouts, freq \in Freqs :
           T1seq(tau, init, readout, freq)
    \/ \E tau \in Taus, inner_halft \in InnerHalfts, duty \in Duties,
          loops \in LoopCounts : rabiSeq(tau, inner_halft, duty, loops)
    \/ \E taus \in TauLists, inner_halft \in InnerHalfts, duty \in Duties,
          loops \in LoopCounts : iterateRabi(taus, inner_halft, duty, loops)
    \/ \E freq \in Freqs : cwSeq(freq)
    \/ \E lockin_freq \in Freqs, measured \in {64, 500} :
           measureCW(lockin_freq, measured)
    \/ \E fs \in {<<>>, <<2>>, <<2, 3>>}, lockin_freq \in Freqs,
          measured \in {64, 500} : iterateCW(fs, lockin_freq, measured)
    \/ \E tau \in Taus, init \in Inits, readout \in Readouts, freq \in Freqs :
           measureT1(tau, init, readout, freq)
    \/ \E taus \in TauLists \cup {<<1, 939990 * TimeDen>>}, init \in Inits,
          readout \in Readouts, freq \in Freqs :
           iterateT1(taus, init, readout, freq)
    \/ \E tau \in {20 * TimeDen}, inner_halft \in {100000 * TimeDen},
          duty \in {9}, loops \in {100} :
           measureRabi(tau, inner_halft, duty, loops)

SpecExp == InitExp /\ [][NextExp]_vars


(***************************************************************************)
(* The life cycle of an experiment object's device handles                 *)
(***************************************************************************)
\* __del__ has not run
Alive == x_call.fn # "__del__"

setupDevices(made) ==
    /\ Alive
    /\ Apply("setupDevices", [made |-> made],
             [Start EXCEPT !.res = AfterSetup(x_res, x_kind, made),
                           !.log = <<"setup">>,
                           !.exc = IF made < 4 THEN "Exception: device"
                                   ELSE "none"])

unloadDevices ==
    /\ Alive
    /\ Apply("unloadDevices", <<>>, AfterUnload(Start, x_kind))

\* self.unloadDevices(); self.setupDevices()
refreshDevices(made) ==
    /\ Alive
    /\ LET st == AfterUnload(Start, x_kind)
       IN Apply("refreshDevices", [made |-> made],
                IF st.exc # "none" THEN st
                ELSE [st EXCEPT !.res = AfterSetup(st.res, x_kind, made),
                                !.log = Append(@, "setup"),
                                !.exc = IF made < 4 THEN "Exception: device"
                                        ELSE "none"])

\* __del__: self.unloadDevices()
Del ==
    /\ Alive
    /\ Apply("__del__", <<>>, AfterUnload(Start, x_kind))

NextLife ==
    \/ \E made \in {2, 3, 4} : setupDevices(made)
    \/ unloadDevices
    \/ \E made \in {2, 3, 4} : refreshDevices(made)
    \/ Del
    \/ \E freq \in Freqs : Alive /\ x_res.pico /\ IdleSeq(freq)
    \/ \E freq \in Freqs : Alive /\ x_res.pico /\ cwSeq(freq)
    \/ \E tau \in {1, 20 * TimeDen}, freq \in Freqs :
           Alive /\ x_res.pico /\ T1seq(tau, 50000 * TimeDen, 10000 * TimeDen, freq)
    \/ \E tau \in {1, 20 * TimeDen}, loops \in {2, 100} :
           Alive /\ x_res.pico /\ rabiSeq(tau, 100000 * TimeDen, 5, loops)

SpecLife == InitExp /\ [][NextLife]_vars

(***************************************************************************)
(* Timing computation: state machine. The same durations are resolved      *)
(* twice, for two lock-in frequencies.                                     *)
(***************************************************************************)
InitResolver ==
    /\ r_ts \in SeqsUpTo(TimeSteps, MaxSteps)
    /\ r_pair = [first |-> NoTiming, second |-> NoTiming]
    /\ AwgIdle /\ PicoIdle /\ ExpandIdle /\ ExpIdle /\ LoIdle

Resolve(lock_in_hz) ==
    /\ r_pair.second = NoTiming
    /\ r_pair' = IF r_pair.first = NoTiming
                 THEN [r_pair EXCEPT !.first = ResolveTiming(r_ts, lock_in_hz)]
                 ELSE [r_pair EXCEPT !.second = ResolveTiming(r_ts, lock_in_hz)]
    /\ UNCHANGED <<r_ts, awg_vars, pico_vars, w_vars, x_vars, lo_vars>>

NextResolver == \E lock_in_hz \in LockInHz : Resolve(lock_in_hz)

SpecResolver == InitResolver /\ [][NextResolver]_vars

(***************************************************************************)
(* KuhnePLL: state machine. The object is as __init__ leaves it: connect   *)
(* has opened the port or has printed the SerialException and left         *)
(* self.device at None.                                                    *)
(***************************************************************************)
InitLO ==
    /\ lo_val \in Doubles
    /\ lo_legacy \in BOOLEAN
    /\ lo_dev \in BOOLEAN
    /\ lo_replies = <<>>
    /\ lo_sent = <<>>
    /\ lo_ret = "none"
    /\ AwgIdle /\ PicoIdle /\ ExpandIdle /\ ExpIdle /\ ResolverIdle

\* setHz(lo_val) on a port that answers the k-th command with replies[k];
\* without a port, sendCommand's self.device.reset_input_buffer() raises
\* AttributeError, which its except clause does not catch
setHz(replies) ==
    /\ lo_ret = "none"
    /\ lo_replies' = replies
    /\ IF lo_dev
       THEN /\ lo_sent' = SendFrom(1, Groups(lo_val), lo_legacy, replies).sent
            /\ lo_ret' = SendFrom(1, Groups(lo_val), lo_legacy, replies).ret
       ELSE /\ lo_sent' = <<>>
            /\ lo_ret' = "AttributeError"
    /\ UNCHANGED <<lo_val, lo_legacy, lo_dev, awg_vars, pico_vars, w_vars,
                   x_vars, r_vars>>

NextLO == \E replies \in [1..4 -> Replies] : setHz(replies)

SpecLO == InitLO /\ [][NextLO]_vars

(***************************************************************************)
(* Properties of the waveform encoder (checked under SpecAWG)              *)
(***************************************************************************)
IsPowerOfTwo(n) == \E k \in 0..20 : n = Pow2(k)

ReturnedBySetWaveform == awg_fn = "set_waveform" /\ awg_exc = "none"

AllZero(w) == \A i \in 1..Len(w.num) : w.num[i] = 0

\* C1: for every waveform returned by set_waveform, len(output) + 2 is an
\* exact power of two and is at least the padding floor 0x8000.
C1_LengthLegalAndAboveFloor ==
    ReturnedBySetWaveform =>
        /\ IsPowerOfTwo(IntLen(awg_ret) + 2)
        /\ IntLen(awg_ret) + 2 >= PadFloor

C8_AllZeroPaddedToFloor ==
    (/\ awg_fn = "set_waveform"
     /\ ArrLen(waveform) > 0
     /\ AllZero(waveform)
     /\ ~IsPowerOfTwo(ArrLen(waveform) + 2)
     /\ ArrLen(waveform) + 2 <= PadFloor) =>
        /\ awg_exc = "none"
        /\ waveform.den = SampleDen
        /\ IntLen(awg_ret) = PadFloor - 2
        /\ \A i \in 1..Len(awg_ret.data) : awg_ret.data[i] = 0

\* the 10-sample all-zero input came back as 32766 samples
C8_Witness ==
    /\ ReturnedBySetWaveform
    /\ AllZero(waveform)
    /\ ArrLen(waveform) = 10
    /\ IntLen(awg_ret) = 32766

\* C9: every sample of a waveform returned by set_waveform lies in
\* [-32768, 32767], whatever the peak magnitude of the input.
C9_SamplesInInt16Range ==
    ReturnedBySetWaveform =>
        \A i \in 1..Len(awg_ret.data) :
            awg_ret.data[i] >= -32768 /\ awg_ret.data[i] <= 32767

\* an input whose peak magnitude exceeded 1 came back with a full-scale sample
C9_Witness ==
    /\ ReturnedBySetWaveform
    /\ waveform.den > SampleDen
    /\ \E i \in 1..Len(awg_ret.data) : awg_ret.data[i] = 32767
    /\ \E i \in 1..Len(awg_ret.data) : awg_ret.data[i] = -32767

\* the scaled value 32767 * x of sample i of the array as it is quantized
\* (set_waveform has normalized the caller's array in place by then),
\* truncated toward zero
ScaledSample(i) == TruncDiv(32767 * waveform.num[i], waveform.den)

\* C10: when quantizing to 16 bits (set_waveform and set_waveform_exact), a
\* sample whose scaled value 32767 * x falls outside [-32768, 32767] is
\* clamped to the nearest bound; it never wraps around modulo 2^16.
C10_QuantizeClampsNeverWraps ==
    (awg_fn # "none" /\ awg_exc = "none") =>
        \A i \in 1..Len(awg_ret.data) :
            /\ ScaledSample(i) > 32767 => awg_ret.data[i] = 32767
            /\ ScaledSample(i) < -32768 => awg_ret.data[i] = -32768

(***************************************************************************)
(* Properties of two encode calls in a row (checked under SpecPair)        *)
(***************************************************************************)
\* C16: set_waveform does not modify the caller's input array, and encoding
\* the same input again, whatever was encoded in between, returns the same
\* samples.
C16_SetWaveformLeavesInputAlone ==
    /\ \A r \in {awg_pair.first, awg_pair.second} :
          r.fn = "set_waveform" => r.out = r.in
    /\ (awg_pair.first.fn = "set_waveform" /\ awg_pair.second.fn = "set_waveform") =>
          awg_pair.second.ret = awg_pair.first.ret

SameEncodeTwice ==
    /\ awg_pair.first.fn # "none"
    /\ awg_pair.second.fn = awg_pair.first.fn
    /\ awg_pair.second.mode = awg_pair.first.mode
    /\ awg_pair.second.in = awg_pair.first.in

\* C17: the samples returned by set_waveform and set_waveform_exact do not
\* depend on amp and offset: two calls with the same input that differ only
\* in amp and offset return identical sample arrays.
C17_SamplesIndependentOfAmpOffset ==
    SameEncodeTwice => awg_pair.second.ret = awg_pair.first.ret

\* the same two samples were encoded with amp 1, offset 0 and then with
\* amp 10, offset 1
C17_Witness ==
    /\ SameEncodeTwice
    /\ awg_pair.first.fn = "set_waveform"
    /\ awg_pair.first.amp = 1 /\ awg_pair.first.offset = 0
    /\ awg_pair.second.amp = 10 /\ awg_pair.second.offset = 1
    /\ awg_pair.first.in.num = <<1, -1>>
    /\ awg_pair.second.ret.data = <<32767, -32767>>

(***************************************************************************)
(* Properties of the token encoder (checked under SpecPico)                *)
(***************************************************************************)
Encoded == pico_fn # "none"

\* the bit a channel map asks for, summed over the mapped channels that are
\* columns of the frame and active in the row
RECURSIVE MappedBits(_, _, _, _)
MappedBits(pins, chans, cols, row) ==
    IF chans = {} THEN 0
    ELSE LET ch == CHOOSE c \in chans : TRUE
         IN (IF ch \in cols /\ row.vals[ch] > 0 THEN Pow2(pins[ch]) ELSE 0)
            + MappedBits(pins, chans \ {ch}, cols, row)

ExpectedMask(pins, cols, row) == MappedBits(pins, DOMAIN pins, cols, row)

\* C2: for every step, the emitted bitmask is the sum of 1 << bit over exactly
\* those channels of the caller's channel map that are columns of the
\* sequence and have a value > 0 in that step.
C2_MaskFollowsChannelMap ==
    Encoded =>
        \A k \in 1..Len(seq.blocks) :
            \A j \in 1..Len(seq.blocks[k].rows) :
                pico_cmd.toks[k].rows[j][2]
                    = ExpectedMask(pico_pins, seq.cols, seq.blocks[k].rows[j])

LaserRow(t, on) == [time |-> t * TimeDen, vals |-> [c \in {"laser"} |-> on]]

LaserScenario ==
    [cols |-> {"laser"},
     blocks |-> <<[rows |-> <<LaserRow(1000, 1), LaserRow(1000, 0)>>, reps |-> 1]>>]

\* C3: the 2-step sequence [(1000, laser=1), (1000, laser=0)] encoded with the
\* channel map {"laser": 0} yields the tokens "1000,1,1000,0,".
C3_LaserScenarioTokens ==
    (Encoded /\ seq = LaserScenario /\ pico_pins = [c \in {"laser"} |-> 0]) =>
        TokenText(Unroll(pico_cmd.toks)) = "1000,1,1000,0,"

\* the duration and the bitmask a row stands for, read off the row
RowDuration(row) ==
    LET r == PyRound(row.time, TimeDen) IN IF r < 0 THEN 0 ELSE r

RowMask(cols, row) ==
    (IF "ch1" \in cols /\ row.vals["ch1"] > 0 THEN 1 ELSE 0)
    + (IF "ch2" \in cols /\ row.vals["ch2"] > 0 THEN 2 ELSE 0)
    + (IF "ch3" \in cols /\ row.vals["ch3"] > 0 THEN 4 ELSE 0)
    + (IF "ch4" \in cols /\ row.vals["ch4"] > 0 THEN 8 ELSE 0)
    + (IF "ch5" \in cols /\ row.vals["ch5"] > 0 THEN 16 ELSE 0)

RECURSIVE RowsText(_, _)
RowsText(cols, rows) ==
    IF rows = <<>> THEN ""
    ELSE Str(RowDuration(Head(rows))) \o "," \o Str(RowMask(cols, Head(rows))) \o ","
         \o RowsText(cols, Tail(rows))

\* C4: the command is the header "PULSE <innerLoop> <outerLoop> " ("CPULSE"
\* when cycle is set) followed by exactly one "<duration>,<bitmask>," token
\* per step, the i-th token made from the i-th row: no step is dropped,
\* merged or reordered.
C4_OneTokenPerStepInOrder ==
    Encoded =>
        /\ pico_cmd.kw = (IF pico_args.cycle THEN "CPULSE" ELSE "PULSE")
        /\ Steps(pico_cmd.toks) = Steps(seq.blocks)
        /\ Len(pico_cmd.toks) = Len(seq.blocks)
        /\ \A k \in 1..Len(seq.blocks) :
              /\ pico_cmd.toks[k].reps = seq.blocks[k].reps
              /\ Len(pico_cmd.toks[k].rows) = Len(seq.blocks[k].rows)
              /\ \A j \in 1..Len(seq.blocks[k].rows) :
                    pico_cmd.toks[k].rows[j]
                        = <<RowDuration(seq.blocks[k].rows[j]),
                            RowMask(seq.cols, seq.blocks[k].rows[j])>>
        /\ Steps(seq.blocks) <= 3 * MaxSteps =>
              CommandText(pico_cmd)
                  = pico_cmd.kw \o " " \o Str(pico_cmd.m) \o " "
                    \o StrWide(pico_cmd.n) \o " "
                    \o RowsText(seq.cols, Unroll(seq.blocks))

\* two different steps were encoded, the first before the second
C4_Witness ==
    /\ pico_fn = "encodeSequence"
    /\ pico_args.cycle
    /\ Steps(seq.blocks) = 2
    /\ CommandText(pico_cmd) = "CPULSE 2 2 1000,1,2,2,"

\* C5: a step whose duration is non-positive after rounding makes the encode
\* call fail with InvalidDurationError; it is not encoded as a token of
\* duration 0.
C5_NonPositiveDurationRaises ==
    (Encoded /\ \E k \in 1..Len(seq.blocks) : \E j \in 1..Len(seq.blocks[k].rows) :
                    PyRound(seq.blocks[k].rows[j].time, TimeDen) <= 0) =>
        /\ pico_exc = "InvalidDurationError"
        /\ pico_cmd = NoCommand

\* C6: the number of tokens of an encoded command never exceeds the device
\* ceiling; a sequence with more steps than the ceiling raises CapacityError
\* before transmission and nothing of it is produced or sent.
C6_TokenCountWithinCeiling ==
    Encoded =>
        /\ Steps(pico_cmd.toks) <= MaxTokens
        /\ Steps(seq.blocks) > MaxTokens =>
              pico_exc = "CapacityError" /\ pico_cmd = NoCommand /\ pico_dev = <<>>

\* C18: building or encoding a sequence fails with SchemaError when its rows
\* do not all carry the same channel name set or when a step duration is
\* negative; no command is produced for such a sequence.
C18_SchemaViolationRaises ==
    (Encoded /\ \E k \in 1..Len(seq.blocks) : \E j \in 1..Len(seq.blocks[k].rows) :
                    \/ DOMAIN seq.blocks[k].rows[j].vals # seq.cols
                    \/ seq.blocks[k].rows[j].time < 0) =>
        /\ pico_exc = "SchemaError"
        /\ pico_cmd = NoCommand
        /\ pico_dev = <<>>

\* the value of an outerLoop argument <<hi, lo>> is hi * 65536 + lo / TimeDen
BelowRange(o) == o[1] < 0

AboveRange(o) == o[1] > 65535 \/ (o[1] = 65535 /\ o[2] > 65535 * TimeDen)

\* C12: the outer-loop count of an encoded command is the "effectively
\* infinite" sentinel when no outerLoop is passed, and otherwise the request
\* clamped into [0, 2^32 - 1]: 0 for a request below the range, 2^32 - 1 for
\* one above it, round(outerLoop) for one inside it.
C12_OuterLoopClampedTo32Bits ==
    Encoded =>
        LET o == pico_args.outerLoop
        IN pico_cmd.n =
              IF o = <<>> THEN OuterSentinel
              ELSE IF BelowRange(o) THEN <<0, 0>>
              ELSE IF AboveRange(o) THEN <<65535, 65535>>
              ELSE WideNorm(o[1], PyRound(o[2], TimeDen))

(***************************************************************************)
(* Properties of seq_to_waveforms (checked under SpecExpand)               *)
(***************************************************************************)
Expanded == w_fn = "seq_to_waveforms"

\* C11: in the waveform expansion every step contributes its n samples, and a
\* step whose n is zero while its duration is nonzero makes the call fail
\* with InvalidDurationError; the pulse is not silently dropped.
C11_ZeroSampleStepRaises ==
    (Expanded /\ \E k \in 1..Len(lseq) :
                    lseq[k].length # 0 /\ ExpandCount(lseq[k]) <= 0) =>
        /\ w_exc = "InvalidDurationError"
        /\ w_ret = NoBuffers

\* the samples the rows ask for, 2 * round(length) each
RECURSIVE ExpandedSamples(_)
ExpandedSamples(rows) ==
    IF rows = <<>> THEN 0
    ELSE Max2(2 * PyRound(Head(rows).length, TimeDen), 0)
         + ExpandedSamples(Tail(rows))

\* C20: in seq_to_waveforms the write index never leaves [0, p): a sequence
\* whose expanded sample count exceeds p is rejected with a capacity error
\* and no partially filled buffer is returned.
C20_OverflowRejectedWithCapacityError ==
    Expanded =>
        /\ w_i >= 0 /\ w_i <= BufLen
        /\ ExpandedSamples(lseq) > BufLen =>
              w_exc = "CapacityError" /\ w_ret = NoBuffers

(***************************************************************************)
(* Properties of the experiments (checked under SpecExp)                   *)
(***************************************************************************)
Built == x_call.fn \in {"T1seq", "rabiSeq"} /\ x_exc = "none"

RECURSIVE RowsAtLevel(_, _, _)
RowsAtLevel(rows, toks, level) ==
    IF rows = <<>> THEN 0
    ELSE (IF Head(rows).vals["lockin"] = level THEN Head(toks)[1] ELSE 0)
         + RowsAtLevel(Tail(rows), Tail(toks), level)

\* the encoded durations of the steps whose lock-in value is `level`, summed
RECURSIVE LevelSum(_, _, _)
LevelSum(blocks, toks, level) ==
    IF blocks = <<>> THEN 0
    ELSE Head(blocks).reps * RowsAtLevel(Head(blocks).rows, Head(toks).rows, level)
         + LevelSum(Tail(blocks), Tail(toks), level)

\* the nominal half period as a numerator over TimeDen: halft for T1,
\* loops * inner_halft for Rabi
NominalHalf ==
    IF x_call.fn = "T1seq" THEN HalfPeriod(x_call.args.freq) * TimeDen
    ELSE x_call.args.loops * x_call.args.inner_halft

\* C13: for every sequence built by T1seq or rabiSeq and encoded by
\* encodeSequence, the encoded durations of the steps with the lock-in high
\* sum to the nominal half period, and so do those with the lock-in low.
C13_NoRoundingDrift ==
    Built =>
        /\ LevelSum(x_dev.frame.blocks, x_dev.cmd.toks, 1) * TimeDen = NominalHalf
        /\ LevelSum(x_dev.frame.blocks, x_dev.cmd.toks, 0) * TimeDen = NominalHalf

\* the padding of the last T1seq or rabiSeq call, from its arguments
PadOfCall ==
    IF x_call.fn = "T1seq"
    THEN T1Pad(x_call.args.tau, x_call.args.init, x_call.args.readout,
               x_call.args.freq)
    ELSE RabiPad(x_call.args.tau, x_call.args.inner_halft, x_call.args.duty)

\* C14: T1seq and rabiSeq raise whenever the padding (T1: halft - init -
\* readout - tau; Rabi: laser_off - tau) is below 20 ns; then no sequence is
\* sent to the pulse generator and the idle flag is unchanged.
C14_ShortPaddingRaisesBeforeSending ==
    (x_call.fn \in {"T1seq", "rabiSeq"} /\ PadOfCall < 20 * TimeDen) =>
        /\ x_exc # "none"
        /\ x_call.sends = 0
        /\ x_idle = x_call.was_idle

\* a T1seq call with a padding of 10 ns raised on an object that was
\* measuring, and the pulse generator kept the measurement sequence
C14_Witness ==
    /\ x_call.fn = "T1seq"
    /\ PadOfCall = 10 * TimeDen
    /\ x_exc = "Exception: padding"
    /\ ~x_idle
    /\ x_dev.frame # T1IdleFrame(500)

\* C15: iterateRabi measures every tau with the caller's inner_halft,
\* laser_duty_cycle and loops, so once its up-front check has passed no
\* per-tau call raises the padding exception.
C15_IterateRabiPassesCallerArguments ==
    (x_call.fn = "iterateRabi" /\ x_call.inner # <<>>) =>
        /\ x_call.inner[1].inner_halft = x_call.args.inner_halft
        /\ x_call.inner[1].duty = x_call.args.duty
        /\ x_call.inner[1].loops = x_call.args.loops
        /\ x_exc # "Exception: padding"

(***************************************************************************)
(* Properties of the timing computation (checked under SpecResolver)       *)
(***************************************************************************)
\* a/d <= c/d: both resolutions are over the same p/2
FracLeq(x, y) == x[2] = y[2] /\ x[1] <= y[1]

Resolved(r) == r # NoTiming

IdleShaped(frame) ==
    /\ Len(frame.blocks) = 1
    /\ frame.blocks[1].reps = 1
    /\ Len(frame.blocks[1].rows) = 2
    /\ frame.blocks[1].rows[1].time = frame.blocks[1].rows[2].time
    /\ \A c \in frame.cols :
          /\ frame.blocks[1].rows[2].vals[c] = 0
          /\ frame.blocks[1].rows[1].vals[c] =
                 IF c \in {"lockin", "ch1"} THEN 1 ELSE 0

\* C21: in CW, T1 and Rabi objects, after any sequence of idleSeq, cwSeq,
\* T1seq, rabiSeq, measure* and iterate* calls, raising ones included, the
\* idle flag is True exactly when the last sequence sent to the pulse
\* generator was the idle sequence.
C21_IdleFlagTracksLastSequence == x_idle = IdleShaped(x_dev.frame)

\* a measureT1 call raised the padding exception on an object that was
\* measuring: the flag is still False and the measurement sequence is loaded
C21_Witness ==
    /\ x_call.fn = "measureT1"
    /\ x_exc = "Exception: padding"
    /\ ~x_call.was_idle
    /\ ~x_idle
    /\ ~IdleShaped(x_dev.frame)

Count(log, events) == Len(SelectSeq(log, LAMBDA e : e \in events))

\* C22: a single measurement restores the idle sequence on return if and
\* only if the experiment was idle when the call started: measureCW called
\* while idle sends the CW sequence before reading and the idle sequence
\* after, and called while not idle sends nothing; measureT1 sends the idle
\* sequence after reading only if it was idle on entry; so iterateCW sends
\* exactly two sequences (CW before the first measurement, idle after the
\* last) however many frequencies it measures.
C22_MeasurementRestoresIdleIffIdleOnEntry ==
    /\ x_call.fn = "measureCW" =>
          /\ x_idle = x_call.was_idle
          /\ x_log = IF x_call.was_idle
                     THEN <<"setGHz", "send cw", "read", "send idle">>
                     ELSE <<"setGHz", "read">>
    /\ (x_call.fn = "measureT1" /\ x_exc = "none") =>
          /\ x_idle = x_call.was_idle
          /\ x_log = IF x_call.was_idle
                     THEN <<"send T1", "read", "send idle">>
                     ELSE <<"send T1", "read">>
    /\ x_call.fn = "iterateCW" =>
          /\ x_call.sends = 2
          /\ Head(x_log) = "send cw"
          /\ x_log[Len(x_log)] = "send idle"
          /\ Count(x_log, {"send cw"}) = 1
          /\ Count(x_log, {"send idle"}) = 1
          /\ Count(x_log, {"read"}) = Len(x_call.args.fs)

\* iterateCW measured two frequencies on an object that was idle, and the
\* pulse generator received two sequences
C22_Witness ==
    /\ x_call.fn = "iterateCW"
    /\ x_call.was_idle
    /\ Len(x_call.args.fs) = 2
    /\ x_log = <<"send cw", "setGHz", "read", "setGHz", "read", "send idle">>

\* C25: if iterateT1's up-front check fails, the exception is raised before
\* any sequence is sent and before any measurement is taken; if it passes,
\* no per-tau T1seq call of the loop raises the padding exception, for
\* every tau of the array.
C25_UpFrontCheckCoversEveryTau ==
    x_call.fn = "iterateT1" =>
        IF x_exc # "none"
        THEN /\ x_exc \in {"Exception: tau too large", "ValueError"}
             /\ x_log = <<>>
        ELSE /\ Count(x_log, {"send T1"}) = Len(x_call.args.taus)
             /\ Count(x_log, {"read"}) = Len(x_call.args.taus)
             /\ x_log[Len(x_log)] = "send idle"
             /\ x_idle

\* iterateT1 measured 0.5 ns and then 939.99 us, which fits a slow lock-in
\* reference and not a 500 Hz one, and returned
C25_Witness ==
    /\ x_call.fn = "iterateT1"
    /\ Len(x_call.args.taus) = 2
    /\ x_call.args.taus[1] < x_call.args.taus[2]
    /\ x_call.args.taus[2] = 939990 * TimeDen
    /\ x_exc = "none"
    /\ Count(x_log, {"send T1"}) = 2

\* C26: every sequence that rabiSeq sends has exactly 6 * loops tokens with
\* 1 <= loops and 6 * loops < 2^16, the first 3 * loops tokens with the
\* lock-in channel high and the last 3 * loops with it low; loops <= 0,
\* 6 * loops >= 2^16 or a laser duty cycle outside (0, 1) raises before
\* anything is sent.
C26_RabiSequenceShape ==
    x_call.fn = "rabiSeq" =>
        /\ (\/ x_call.args.loops <= 0
            \/ 6 * x_call.args.loops >= MaxTokens
            \/ x_call.args.duty <= 0 \/ x_call.args.duty >= 10) =>
               x_exc # "none" /\ x_log = <<>>
        /\ x_log # <<>> =>
              /\ 1 <= x_call.args.loops /\ 6 * x_call.args.loops < MaxTokens
              /\ Steps(x_dev.cmd.toks) = 6 * x_call.args.loops
              /\ Len(x_dev.cmd.toks) = 2
              /\ \A k \in 1..2 :
                    /\ x_dev.cmd.toks[k].reps = x_call.args.loops
                    /\ Len(x_dev.cmd.toks[k].rows) = 3
                    /\ \A j \in 1..3 :
                          (x_dev.cmd.toks[k].rows[j][2] # 0) = (k = 1)

(***************************************************************************)
(* Properties of the device handles' life cycle (checked under SpecLife)   *)
(***************************************************************************)
Releasing == x_call.fn \in {"unloadDevices", "refreshDevices", "__del__"}

LaserInactive(frame) ==
    \A k \in 1..Len(frame.blocks) : \A j \in 1..Len(frame.blocks[k].rows) :
        frame.blocks[k].rows[j].vals["laser"] = 0

\* C23: in T1 and Rabi, unloadDevices sends the idle sequence (laser channel
\* inactive in every step) to the pulse generator before any device handle
\* is dropped and before the resource manager is closed, so the laser is
\* off whenever the devices are released.
C23_IdleSentBeforeRelease ==
    (/\ x_kind \in {"T1", "Rabi"} /\ Releasing
     /\ Count(x_log, {"drop lo", "drop lock", "drop pico", "rm.close"}) > 0) =>
        /\ Head(x_log) = "send idle"
        /\ IdleShaped(x_dev.frame)
        /\ LaserInactive(x_dev.frame)
        /\ x_idle

\* unloadDevices ran on a T1 object that was measuring: idle sequence, then
\* the handles, then the resource manager
C23_Witness ==
    /\ x_kind = "T1"
    /\ x_call.fn = "unloadDevices"
    /\ ~x_call.was_idle
    /\ x_log = <<"send idle", "drop lock", "drop pico", "rm.close">>
    /\ x_res = NoHandles

\* C24: for any interleaving of setupDevices, unloadDevices, refreshDevices
\* and the destructor on a CW, T1 or Rabi object, no operation is invoked on
\* an already released handle and the resource manager is closed once per
\* successful setup: a second unloadDevices (the destructor after an
\* explicit unloadDevices, or after a failed setupDevices) raises no error.
C24_ReleaseIsIdempotent ==
    Releasing =>
        /\ x_exc # "AttributeError"
        /\ x_exc = "none" => ~x_res.rm \/ x_call.fn = "refreshDevices"

(***************************************************************************)
(* Properties of LIQ_SDG1062X.set_sequence (checked under SpecExpand)      *)
(***************************************************************************)
Outputs == {<<"awg1", 1>>, <<"awg2", 1>>, <<"awg2", 2>>}

\* the index of the first write of this kind to this output, 0 if none
FirstWrite(cmd, arg, out) ==
    IF \E i \in 1..Len(w_log) :
          /\ w_log[i].cmd = cmd /\ w_log[i].arg \in arg
          /\ <<w_log[i].dev, w_log[i].channel>> = out
    THEN CHOOSE i \in 1..Len(w_log) :
          /\ w_log[i].cmd = cmd /\ w_log[i].arg \in arg
          /\ <<w_log[i].dev, w_log[i].channel>> = out
          /\ \A j \in 1..(i - 1) :
                ~(/\ w_log[j].cmd = cmd /\ w_log[j].arg \in arg
                  /\ <<w_log[j].dev, w_log[j].channel>> = out)
    ELSE 0

\* C27: set_sequence disables all three outputs (AWG1 ch1, AWG2 ch1, AWG2
\* ch2) before the first waveform upload, and enables an output only after
\* all three waveforms have been uploaded and all three burst modes
\* configured; each upload is the define-waveform command, then the select
\* command, then the sample-rate command.
C27_SetSequenceOrder ==
    w_fn = "set_sequence" =>
        /\ \A out \in Outputs : FirstWrite("OUTP", {"OFF"}, out) \in 1..3
        /\ \A i \in 1..Len(w_log) :
              /\ w_log[i].cmd = "WVDT" =>
                    /\ i > 3
                    /\ Len(w_log) >= i + 2
                    /\ w_log[i + 1] = [w_log[i] EXCEPT !.cmd = "ARWV"]
                    /\ w_log[i + 2].cmd = "SRATE"
                    /\ w_log[i + 2].dev = w_log[i].dev
                    /\ w_log[i + 2].channel = w_log[i].channel
              /\ (w_log[i].cmd = "OUTP" /\ w_log[i].arg = "ON") =>
                    \A out \in Outputs :
                        /\ FirstWrite("SRATE", {"TARB"}, out) \in 1..(i - 1)
                        /\ FirstWrite("BTWV", {"INT", "EXT"}, out) \in 1..(i - 1)

(***************************************************************************)
(* Properties of KuhnePLL.setHz (checked under SpecLO)                     *)
(***************************************************************************)
\* the decimal digit groups of floor(val), three digits each from the right,
\* and what is left above the fourth
TrueGroups(val) ==
    LET h == DivSmall(Floor(val), 1000)
        k == DivSmall(h.q, 1000)
        m == DivSmall(k.q, 1000)
        g == DivSmall(m.q, 1000)
    IN [groups |-> <<g.r, m.r, k.r, h.r>>, above |-> g.q]

\* the first command that fails or is not acknowledged, 5 if none
FirstFailure ==
    IF \A k \in 1..4 : lo_replies[k] = "A" THEN 5
    ELSE CHOOSE k \in 1..4 :
            lo_replies[k] # "A" /\ \A j \in 1..(k - 1) : lo_replies[j] = "A"

\* C28: setHz sends the four frequency commands in the order G, M, k, H,
\* stops at the first command that fails or is not acknowledged with "A"
\* and returns False, and returns True only if all four were acknowledged;
\* the four zero-padded 3-digit groups recompose to the requested value:
\* ghz*10^9 + mhz*10^6 + khz*10^3 + hz = floor(val) for 0 <= val < 10^12.
\* (Stated for an oscillator whose serial port was opened.)
C28_SetHzGroupsAndOrder ==
    (lo_ret # "none" /\ lo_dev) =>
        /\ lo_ret = IF FirstFailure = 5 THEN "True" ELSE "False"
        /\ Len(lo_sent) \in {k \in 0..4 : FirstFailure - 1 <= k /\ k <= FirstFailure}
        /\ ~NonZero(TrueGroups(lo_val).above) =>
              \A k \in 1..Len(lo_sent) :
                  lo_sent[k] = LoCommand(TrueGroups(lo_val).groups[k],
                                         Prefixes[k], lo_legacy)

====
